---- MODULE Spec2Model ----
(***************************************************************************)
(* Model of prabhstock's analysis core:                                    *)
(*   utils/recommendation.py      generate_recommendation        (Spec)    *)
(*   models/prediction.py         predict_stock_movement: the confidence   *)
(*                                boost (SpecBoost) and the per-symbol     *)
(*                                model lifecycle (SpecLifecycle)          *)
(*   utils/technical_analysis.py  perform_technical_analysis (SpecTA)      *)
(*   models/prediction.py         prepare_features (SpecFeatures)          *)
(*   app.py                       analyze_stock (SpecAnalyze)              *)
(*                                                                         *)
(* Real numbers are carried as integer hundredths: a prediction confidence *)
(* of 0.80 is 80, an RSI value of 65.0 is 6500.  The three totals are      *)
(* Python ints.  For every pair of totals the model reaches (sum below 40) *)
(* the double-precision results of buy/total > 0.7 and                     *)
(* round(confidence * 100) equal the exact rational results computed here. *)
(*                                                                         *)
(* A Python dict is a record with a `present` field; a key that is absent  *)
(* (dict.get gives None) is the string "None" for the tri-state fields.    *)
(*                                                                         *)
(* Each specification moves the variables of one function and holds the    *)
(* others at their idle values.                                            *)
(***************************************************************************)
EXTENDS Integers, Sequences, FiniteSets, TLC

VARIABLES
    analysis_results,   \* the Technical Signal Set handed to a function
    prediction,         \* the Prediction Result
    pc,                 \* "call" before the call, "return" after it
    scores,             \* locals buy_score, sell_score, hold_score, reasons at line 149
    result,             \* the dict generate_recommendation returned
    direction_prob,     \* dir_model.predict_proba(...)[0][1], in hundredths
    classified,         \* locals direction, confidence of prediction.py line 307
    store,              \* the files under models/: key -> artifact kind -> training run
    requests,           \* the predict_stock_movement calls in flight
    ta,                 \* perform_technical_analysis: its indicator values and result
    fp,                 \* prepare_features: its input series and the rows returned
    response            \* analyze_stock: the request's circumstances and the JSON response

recVars == <<analysis_results, prediction, pc, scores, result>>

vars == <<analysis_results, prediction, pc, scores, result, direction_prob, classified,
          store, requests, ta, fp, response>>

-----------------------------------------------------------------------------
(* Input domains *)

TriState == {"True", "False", "None"}

\* dict.get(key) of a tri-state field is truthy
Truthy(x) == x = "True"

NoMovingAverages ==
    [present |-> FALSE, price_above_sma_20 |-> FALSE, price_above_sma_50 |-> FALSE,
     price_above_sma_200 |-> "None", sma_20_above_sma_50 |-> FALSE,
     sma_50_above_sma_200 |-> "None", golden_cross |-> FALSE, death_cross |-> FALSE]

MovingAverages ==
    { m \in [present : {TRUE}, price_above_sma_20 : BOOLEAN, price_above_sma_50 : BOOLEAN,
             price_above_sma_200 : TriState, sma_20_above_sma_50 : BOOLEAN,
             sma_50_above_sma_200 : TriState, golden_cross : BOOLEAN,
             death_cross : BOOLEAN] :
        /\ (m.price_above_sma_200 = "None") <=> (m.sma_50_above_sma_200 = "None")
        /\ ~(m.golden_cross /\ m.death_cross) }
    \cup {NoMovingAverages}

NoMacd == [present |-> FALSE, macd_above_signal |-> FALSE, macd_positive |-> FALSE]

Macds ==
    [present : {TRUE}, macd_above_signal : BOOLEAN, macd_positive : BOOLEAN]
    \cup {NoMacd}

\* The missing value of a pandas series
NaN == -1

IsNaN(x) == x = NaN

\* x > y on floats: false when either side is NaN
Gt(x, y) == ~IsNaN(x) /\ ~IsNaN(y) /\ x > y

\* rsi_data.get('value') of a record that has no 'value', or has None
NoneValue == 0 - 3

NoRsi == [present |-> FALSE, value |-> 0, overbought |-> FALSE, oversold |-> FALSE]

\* RSI records: the ones the indicator engine derives (overbought = value > 70,
\* oversold = value < 30, both false for the NaN of a short series), one with
\* both flags set and one without a value
Rsis ==
    { [present |-> TRUE, value |-> v, overbought |-> Gt(v, 7000),
       oversold |-> ~IsNaN(v) /\ v < 3000] :
        v \in {2500, 3500, 5000, 6500, 7500, NaN} }
    \cup {[present |-> TRUE, value |-> 7500, overbought |-> TRUE, oversold |-> TRUE]}
    \cup {[present |-> TRUE, value |-> NoneValue, overbought |-> TRUE, oversold |-> FALSE]}
    \cup {NoRsi}

NoStochastic == [present |-> FALSE, overbought |-> FALSE, oversold |-> FALSE]

Stochastics ==
    { s \in [present : {TRUE}, overbought : BOOLEAN, oversold : BOOLEAN] :
        ~(s.overbought /\ s.oversold) }
    \cup {NoStochastic}

NoBollinger == [present |-> FALSE, near_upper |-> FALSE, near_lower |-> FALSE]

BollingerBands ==
    { b \in [present : {TRUE}, near_upper : BOOLEAN, near_lower : BOOLEAN] :
        ~(b.near_upper /\ b.near_lower) }
    \cup {NoBollinger}

\* Signal sets without an 'error' key
SignalSets ==
    [error : {FALSE}, moving_averages : MovingAverages, macd : Macds, rsi : Rsis,
     stochastic : Stochastics, bollinger_bands : BollingerBands]

EmptySignalSet ==
    [error |-> FALSE, moving_averages |-> NoMovingAverages, macd |-> NoMacd,
     rsi |-> NoRsi, stochastic |-> NoStochastic, bollinger_bands |-> NoBollinger]

\* Signal sets carrying an 'error' key: the engine's {'error': ...} and
\* dicts that carry signals beside the error key
ErrorSignalSets ==
    { [s EXCEPT !.error = TRUE] :
        s \in { t \in SignalSets :
                  /\ t.moving_averages \in
                        {NoMovingAverages,
                         [NoMovingAverages EXCEPT !.present = TRUE,
                                                  !.price_above_sma_20 = TRUE,
                                                  !.price_above_sma_50 = TRUE,
                                                  !.golden_cross = TRUE]}
                  /\ t.macd \in {NoMacd, [NoMacd EXCEPT !.present = TRUE,
                                                        !.macd_above_signal = TRUE,
                                                        !.macd_positive = TRUE]}
                  /\ t.rsi = NoRsi
                  /\ t.stochastic = NoStochastic
                  /\ t.bollinger_bands = NoBollinger } }

\* How far on each side of the 0.6 threshold the prediction confidences are
\* enumerated, in hundredths
ConfidenceWindow == 1

\* Prediction confidences, in hundredths: the values round the threshold of
\* line 138, and 0.80 and 1.00
Confidences == ((60 - ConfidenceWindow)..(60 + ConfidenceWindow)) \cup {80, 100}

NonePrediction == [kind |-> "None", direction |-> "unknown", confidence |-> 0]
EmptyPrediction == [kind |-> "empty", direction |-> "unknown", confidence |-> 0]

Predictions ==
    [kind : {"dict"}, direction : {"up", "down"}, confidence : Confidences]
    \cup [kind : {"dict"}, direction : {"unknown"}, confidence : {0, 80}]
    \cup {NonePrediction, EmptyPrediction}

-----------------------------------------------------------------------------
(* Formatting: f'{x:.2f}' of a value given in hundredths *)

Digit(d) ==
    CASE d = 0 -> "0" [] d = 1 -> "1" [] d = 2 -> "2" [] d = 3 -> "3" [] d = 4 -> "4"
      [] d = 5 -> "5" [] d = 6 -> "6" [] d = 7 -> "7" [] d = 8 -> "8" [] d = 9 -> "9"

RECURSIVE IntStr(_)
IntStr(n) == IF n < 10 THEN Digit(n) ELSE IntStr(n \div 10) \o Digit(n % 10)

Format2f(h) ==
    IF IsNaN(h) THEN "nan"
    ELSE IntStr(h \div 100) \o "." \o Digit((h % 100) \div 10) \o Digit(h % 10)

-----------------------------------------------------------------------------
(* generate_recommendation, block by block.  st is the tuple of locals      *)
(* [buy_score, sell_score, hold_score, reasons].                            *)

InitialScores == [buy_score |-> 0, sell_score |-> 0, hold_score |-> 0, reasons |-> <<>>]

AddBuy(st, n, reason) ==
    [st EXCEPT !.buy_score = @ + n, !.reasons = Append(@, reason)]

AddSell(st, n, reason) ==
    [st EXCEPT !.sell_score = @ + n, !.reasons = Append(@, reason)]

AddHold(st, n, reason) ==
    [st EXCEPT !.hold_score = @ + n, !.reasons = Append(@, reason)]

CheckMovingAverages(st, ma) ==
    IF ~ma.present THEN st
    ELSE
      LET s1 == IF ma.price_above_sma_20
                THEN AddBuy(st, 1, "Price is above 20-day SMA (bullish)")
                ELSE AddSell(st, 1, "Price is below 20-day SMA (bearish)")
          s2 == IF ma.price_above_sma_50
                THEN AddBuy(s1, 1, "Price is above 50-day SMA (bullish)")
                ELSE AddSell(s1, 1, "Price is below 50-day SMA (bearish)")
          s3 == IF ma.price_above_sma_200 # "None"
                THEN IF Truthy(ma.price_above_sma_200)
                     THEN AddBuy(s2, 2, "Price is above 200-day SMA (strongly bullish)")
                     ELSE AddSell(s2, 2, "Price is below 200-day SMA (strongly bearish)")
                ELSE s2
          s4 == IF ma.sma_20_above_sma_50
                THEN AddBuy(s3, 1, "20-day SMA is above 50-day SMA (bullish)")
                ELSE AddSell(s3, 1, "20-day SMA is below 50-day SMA (bearish)")
          s5 == IF ma.sma_50_above_sma_200 # "None"
                THEN IF Truthy(ma.sma_50_above_sma_200)
                     THEN AddBuy(s4, 2, "50-day SMA is above 200-day SMA (strongly bullish)")
                     ELSE AddSell(s4, 2, "50-day SMA is below 200-day SMA (strongly bearish)")
                ELSE s4
          s6 == IF ma.golden_cross
                THEN AddBuy(s5, 3, "Golden Cross detected (very bullish)")
                ELSE s5
      IN  IF ma.death_cross
          THEN AddSell(s6, 3, "Death Cross detected (very bearish)")
          ELSE s6

\* the below-signal branch increments buy_score
CheckMacdBelowAddsBuy(st, macd_data) ==
    IF ~macd_data.present THEN st
    ELSE
      LET s1 == IF macd_data.macd_above_signal
                THEN AddBuy(st, 2, "MACD is above signal line (bullish)")
                ELSE AddBuy(st, 2, "MACD is below signal line (bearish)")
      IN  IF macd_data.macd_positive
          THEN AddBuy(s1, 1, "MACD is positive (bullish)")
          ELSE AddSell(s1, 1, "MACD is negative (bearish)")

CheckMacd(st, macd_data) ==
    IF ~macd_data.present THEN st
    ELSE
      LET s1 == IF macd_data.macd_above_signal
                THEN AddBuy(st, 2, "MACD is above signal line (bullish)")
                ELSE AddSell(st, 2, "MACD is below signal line (bearish)")
      IN  IF macd_data.macd_positive
          THEN AddBuy(s1, 1, "MACD is positive (bullish)")
          ELSE AddSell(s1, 1, "MACD is negative (bearish)")

CheckRsi(st, rsi_data) ==
    IF ~rsi_data.present THEN st
    ELSE
      LET rsi_value == rsi_data.value
      IN  IF rsi_data.overbought
          THEN AddSell(st, 3, "RSI is overbought at " \o Format2f(rsi_value)
                                  \o " (strongly bearish)")
          ELSE IF rsi_data.oversold
          THEN AddBuy(st, 3, "RSI is oversold at " \o Format2f(rsi_value)
                                 \o " (strongly bullish)")
          ELSE IF Gt(rsi_value, 5000)
          THEN AddBuy(st, 1, "RSI is bullish at " \o Format2f(rsi_value))
          ELSE AddSell(st, 1, "RSI is bearish at " \o Format2f(rsi_value))

CheckStochastic(st, stoch_data) ==
    IF ~stoch_data.present THEN st
    ELSE IF stoch_data.overbought
    THEN AddSell(st, 2, "Stochastic Oscillator is overbought (bearish)")
    ELSE IF stoch_data.oversold
    THEN AddBuy(st, 2, "Stochastic Oscillator is oversold (bullish)")
    ELSE st

CheckBollinger(st, bb_data) ==
    IF ~bb_data.present THEN st
    ELSE IF bb_data.near_upper
    THEN AddSell(st, 2, "Price is near upper Bollinger Band (potential reversal)")
    ELSE IF bb_data.near_lower
    THEN AddBuy(st, 2, "Price is near lower Bollinger Band (potential reversal)")
    ELSE st

\* a threshold of 0.8 where the code has 0.6
ConfidenceThresholdHigh == 60 + 20

\* pred_confidence > 0.6, in hundredths
ConfidenceThreshold == 60

\* int(pred_confidence * 5)
ScaledConfidence(pred_confidence) == (pred_confidence * 5) \div 100

\* the comparisons written >= 0.6
ConsiderPredictionInclusive(st, pred) ==
    IF pred.kind # "dict" THEN st
    ELSE
      LET pred_direction == pred.direction
          pred_confidence == pred.confidence
      IN  IF pred_direction = "up" /\ pred_confidence >= ConfidenceThreshold
          THEN AddBuy(st, ScaledConfidence(pred_confidence),
                      "AI predicts upward movement with " \o Format2f(pred_confidence)
                          \o " confidence")
          ELSE IF pred_direction = "down" /\ pred_confidence >= ConfidenceThreshold
          THEN AddSell(st, ScaledConfidence(pred_confidence),
                       "AI predicts downward movement with " \o Format2f(pred_confidence)
                           \o " confidence")
          ELSE AddHold(st, 2, "AI prediction is uncertain")

\* a missing prediction counted as an uncertain one
ConsiderPredictionAbsentUncertain(st, pred) ==
    IF pred.kind # "dict" THEN AddHold(st, 2, "AI prediction is uncertain")
    ELSE
      LET pred_direction == pred.direction
          pred_confidence == pred.confidence
      IN  IF pred_direction = "up" /\ pred_confidence > ConfidenceThreshold
          THEN AddBuy(st, ScaledConfidence(pred_confidence),
                      "AI predicts upward movement with " \o Format2f(pred_confidence)
                          \o " confidence")
          ELSE IF pred_direction = "down" /\ pred_confidence > ConfidenceThreshold
          THEN AddSell(st, ScaledConfidence(pred_confidence),
                       "AI predicts downward movement with " \o Format2f(pred_confidence)
                           \o " confidence")
          ELSE AddHold(st, 2, "AI prediction is uncertain")

ConsiderPrediction(st, pred) ==
    IF pred.kind # "dict" THEN st
    ELSE
      LET pred_direction == pred.direction
          pred_confidence == pred.confidence
      IN  IF pred_direction = "up" /\ pred_confidence > ConfidenceThreshold
          THEN AddBuy(st, ScaledConfidence(pred_confidence),
                      "AI predicts upward movement with " \o Format2f(pred_confidence)
                          \o " confidence")
          ELSE IF pred_direction = "down" /\ pred_confidence > ConfidenceThreshold
          THEN AddSell(st, ScaledConfidence(pred_confidence),
                       "AI predicts downward movement with " \o Format2f(pred_confidence)
                           \o " confidence")
          ELSE AddHold(st, 2, "AI prediction is uncertain")

\* lines 21-146: the locals after every signal group and the prediction
CollectScores(a, pred) ==
    ConsiderPrediction(
        CheckBollinger(
            CheckStochastic(
                CheckRsi(
                    CheckMacd(
                        CheckMovingAverages(InitialScores, a.moving_averages),
                        a.macd),
                    a.rsi),
                a.stochastic),
            a.bollinger_bands),
        pred)

\* total_score, forced to 1 when all three totals are zero
TotalScore(st) ==
    LET total_score == st.buy_score + st.sell_score + st.hold_score
    IN  IF total_score = 0 THEN 1 ELSE total_score

\* round(num / den * 100): Python rounds halves to the even integer
RoundPercent(num, den) ==
    LET q == (100 * num) \div den
        r == (100 * num) % den
    IN  IF 2 * r > den \/ (2 * r = den /\ q % 2 = 1) THEN q + 1 ELSE q

\* the escalation written >= 0.7
AboveStrongInclusive(x, total_score) == 10 * x >= 7 * total_score

\* x / total_score > 0.7
AboveStrong(x, total_score) == 10 * x > 7 * total_score

\* a tie with the first of the other two totals still wins
StrictlyHighestTieWins(x, y, z) == x >= y /\ x > z

\* x_confidence > y_confidence and x_confidence > z_confidence: the three
\* share the positive divisor total_score
StrictlyHighest(x, y, z) == x > y /\ x > z

\* the floor left out: confidence = hold_confidence
HoldConfidenceNoFloor(hold, total_score) == RoundPercent(hold, total_score)

\* round(max(hold_confidence, 0.5) * 100)
HoldConfidence(hold, total_score) ==
    IF 2 * hold > total_score THEN RoundPercent(hold, total_score) ELSE 50

\* lines 157-172: [verdict, confidence], the confidence as round(confidence * 100)
DetermineVerdict(st) ==
    LET total_score == TotalScore(st)
        buy == st.buy_score
        sell == st.sell_score
        hold == st.hold_score
    IN  IF StrictlyHighest(buy, sell, hold)
        THEN [verdict |-> IF AboveStrong(buy, total_score) THEN "STRONG BUY" ELSE "BUY",
              confidence |-> RoundPercent(buy, total_score)]
        ELSE IF StrictlyHighest(sell, buy, hold)
        THEN [verdict |-> IF AboveStrong(sell, total_score) THEN "STRONG SELL" ELSE "SELL",
              confidence |-> RoundPercent(sell, total_score)]
        ELSE [verdict |-> "HOLD", confidence |-> HoldConfidence(hold, total_score)]

\* reasons.sort(key=len, reverse=True): a stable sort, longest first
RECURSIVE InsertByLength(_, _)
InsertByLength(sorted, x) ==
    IF sorted = <<>> THEN <<x>>
    ELSE IF Len(Head(sorted)) >= Len(x)
    THEN <<Head(sorted)>> \o InsertByLength(Tail(sorted), x)
    ELSE <<x>> \o sorted

RECURSIVE SortByLength(_)
SortByLength(reasons) ==
    IF reasons = <<>> THEN <<>>
    ELSE InsertByLength(SortByLength(SubSeq(reasons, 1, Len(reasons) - 1)),
                        reasons[Len(reasons)])

MaxReasons == 5

\* sorted but not sliced
LimitReasonsNoSlice(reasons) ==
    IF Len(reasons) > MaxReasons THEN SortByLength(reasons) ELSE reasons

\* sorted whatever the number of reasons
LimitReasonsAlwaysSorted(reasons) ==
    SubSeq(SortByLength(reasons), 1, IF Len(reasons) > MaxReasons THEN MaxReasons
                                     ELSE Len(reasons))

\* lines 174-178
LimitReasons(reasons) ==
    IF Len(reasons) > MaxReasons
    THEN SubSeq(SortByLength(reasons), 1, MaxReasons)
    ELSE reasons

\* only the emptiness test: the 'error' key is not looked for
InsufficientDataEmptyOnly(a) ==
    ~a.error /\ ~a.moving_averages.present /\ ~a.macd.present /\ ~a.rsi.present
    /\ ~a.stochastic.present /\ ~a.bollinger_bands.present

\* line 14: not analysis_results or 'error' in analysis_results
InsufficientData(a) ==
    \/ (~a.error /\ ~a.moving_averages.present /\ ~a.macd.present /\ ~a.rsi.present
        /\ ~a.stochastic.present /\ ~a.bollinger_bands.present)
    \/ a.error

\* all-zero totals answered like missing data instead of forcing the sum to 1
generate_recommendation_ZeroIsInsufficient(a, pred) ==
    LET st == CollectScores(a, pred)
        v == DetermineVerdict(st)
    IN  IF InsufficientData(a) \/ st.buy_score + st.sell_score + st.hold_score = 0
        THEN [verdict |-> "HOLD", confidence |-> 0,
              reasons |-> <<"Insufficient data for analysis">>]
        ELSE [verdict |-> v.verdict, confidence |-> v.confidence,
              reasons |-> LimitReasons(st.reasons)]

generate_recommendation(a, pred) ==
    IF InsufficientData(a)
    THEN [verdict |-> "HOLD", confidence |-> 0,
          reasons |-> <<"Insufficient data for analysis">>]
    ELSE LET st == CollectScores(a, pred)
             v == DetermineVerdict(st)
         IN  [verdict |-> v.verdict, confidence |-> v.confidence,
              reasons |-> LimitReasons(st.reasons)]

-----------------------------------------------------------------------------
(* The state machine: a caller holds the two arguments and calls once *)

NoResult == [verdict |-> "", confidence |-> 0, reasons |-> <<>>]

NoScores == InitialScores

\* The variables of the other functions, not in use
IdleBoost == direction_prob = 0 /\ classified = [direction |-> "unknown", confidence |-> 0]
IdleLifecycle == store = <<>> /\ requests = <<>>
IdleTA == ta = <<>>
IdleFeatures == fp = <<>>

IdleAnalyze == response = <<>>

Init ==
    /\ analysis_results \in SignalSets \cup ErrorSignalSets
    /\ prediction \in Predictions
    /\ pc = "call"
    /\ scores = NoScores
    /\ result = NoResult
    /\ IdleBoost /\ IdleLifecycle /\ IdleTA /\ IdleFeatures /\ IdleAnalyze

\* lines 102-111: None has no format ':.2f' and no order with 50, so a
\* non-empty RSI record without a value ends the call with a TypeError
RecommendationRaises(a) ==
    ~InsufficientData(a) /\ a.rsi.present /\ a.rsi.value = NoneValue

\* recommendation = generate_recommendation(analysis_results, prediction)
Recommend ==
    /\ pc = "call"
    /\ result' = IF RecommendationRaises(analysis_results) THEN NoResult
                 ELSE generate_recommendation(analysis_results, prediction)
    /\ scores' = IF InsufficientData(analysis_results)
                    \/ RecommendationRaises(analysis_results)
                 THEN NoScores
                 ELSE CollectScores(analysis_results, prediction)
    /\ pc' = IF RecommendationRaises(analysis_results) THEN "raised" ELSE "return"
    /\ UNCHANGED <<analysis_results, prediction>>
    /\ UNCHANGED <<direction_prob, classified, store, requests, ta, fp, response>>

Next == Recommend

Spec == Init /\ [][Next]_vars

-----------------------------------------------------------------------------
(* Properties of generate_recommendation *)

Returned == pc = "return"

\* The claims' own reading of "empty or contains an 'error' key"
EmptyOrError(a) == a = EmptySignalSet \/ a.error

InsufficientResult ==
    [verdict |-> "HOLD", confidence |-> 0,
     reasons |-> <<"Insufficient data for analysis">>]

\* C1: whenever the signal set is empty or carries an 'error' key, the result
\* is exactly HOLD, confidence 0, reasons ['Insufficient data for analysis'],
\* whatever the prediction argument is.
C1_InsufficientDataShortCircuit ==
    (Returned /\ EmptyOrError(analysis_results)) => result = InsufficientResult

\* C1 witness: an error-bearing set that also carries bullish signals, called
\* with a confident 'up' prediction.
C1_Witness ==
    /\ Returned
    /\ analysis_results.error
    /\ analysis_results.moving_averages.golden_cross
    /\ prediction.kind = "dict" /\ prediction.direction = "up"
    /\ prediction.confidence = 80
    /\ result = InsufficientResult

BuyFamily == {"STRONG BUY", "BUY"}
SellFamily == {"STRONG SELL", "SELL"}

BuyWins == scores.buy_score > scores.sell_score /\ scores.buy_score > scores.hold_score
SellWins == scores.sell_score > scores.buy_score /\ scores.sell_score > scores.hold_score

\* C2: the verdict is in the BUY family only if the buy total is strictly
\* greater than both other totals, in the SELL family only if the sell total is
\* strictly greater than both others, and HOLD in every other case.
C2_VerdictSelection ==
    Returned =>
        /\ result.verdict \in BuyFamily => BuyWins
        /\ result.verdict \in SellFamily => SellWins
        /\ (~BuyWins /\ ~SellWins) => result.verdict = "HOLD"

\* C2 witness: buy and sell tie for the maximum above hold, and the verdict
\* is HOLD.
C2_Witness ==
    /\ Returned
    /\ scores.buy_score = scores.sell_score
    /\ scores.buy_score > scores.hold_score
    /\ scores.hold_score > 0
    /\ result.verdict = "HOLD"

ScoreSum == scores.buy_score + scores.sell_score + scores.hold_score

\* C3: when buy wins the verdict is STRONG BUY iff buy / (buy+sell+hold) > 0.7,
\* otherwise BUY; when sell wins it is STRONG SELL iff sell / (buy+sell+hold)
\* > 0.7, otherwise SELL.
C3_Escalation ==
    Returned =>
        /\ BuyWins => /\ (result.verdict = "STRONG BUY") <=> (10 * scores.buy_score > 7 * ScoreSum)
                      /\ (result.verdict = "BUY") <=> ~(10 * scores.buy_score > 7 * ScoreSum)
        /\ SellWins => /\ (result.verdict = "STRONG SELL") <=> (10 * scores.sell_score > 7 * ScoreSum)
                       /\ (result.verdict = "SELL") <=> ~(10 * scores.sell_score > 7 * ScoreSum)

\* C3 witness: the winning buy score is exactly 0.7 of the sum and the
\* verdict stays BUY.
C3_Witness ==
    /\ Returned
    /\ BuyWins
    /\ 10 * scores.buy_score = 7 * ScoreSum
    /\ result.verdict = "BUY"

\* C4 as stated: every recommendation with verdict HOLD has confidence >= 50.
C4_Original ==
    (Returned /\ result.verdict = "HOLD") => result.confidence >= 50

\* C4 (amended): every HOLD computed from a non-empty, error-free signal set
\* has confidence >= 50; the HOLD of the insufficient-data path has
\* confidence 0.
C4_HoldFloor ==
    /\ (Returned /\ ~EmptyOrError(analysis_results) /\ result.verdict = "HOLD")
            => result.confidence >= 50
    /\ (Returned /\ EmptyOrError(analysis_results))
            => (result.verdict = "HOLD" /\ result.confidence = 0)

\* C4 witness: a HOLD whose hold score is under half of the sum, reported
\* at 50.
C4_Witness ==
    /\ Returned
    /\ ~EmptyOrError(analysis_results)
    /\ result.verdict = "HOLD"
    /\ scores.hold_score > 0
    /\ 2 * scores.hold_score < ScoreSum
    /\ result.confidence = 50

\* C5: a non-empty, error-free signal set with buy = sell = hold = 0 gives
\* HOLD, confidence 50 and no reasons.
C5_AllZero ==
    (Returned /\ ~EmptyOrError(analysis_results) /\ ScoreSum = 0)
        => result = [verdict |-> "HOLD", confidence |-> 50, reasons |-> <<>>]

\* C5 witness: only neutral stochastic and Bollinger records, no prediction.
C5_Witness ==
    /\ Returned
    /\ ~EmptyOrError(analysis_results)
    /\ analysis_results.stochastic.present
    /\ analysis_results.bollinger_bands.present
    /\ prediction.kind = "None"
    /\ ScoreSum = 0
    /\ result.confidence = 50

\* The all-bullish scenario: price above the three SMAs, golden cross (so no
\* death cross and SMA50 above SMA200), MACD above signal and positive,
\* RSI 65 with neither flag, prediction 'up' at 0.8.  SMA20-vs-SMA50,
\* stochastic and Bollinger are left free.
BullishScenario(a, pred) ==
    /\ ~a.error
    /\ a.moving_averages.present
    /\ a.moving_averages.price_above_sma_20
    /\ a.moving_averages.price_above_sma_50
    /\ a.moving_averages.price_above_sma_200 = "True"
    /\ a.moving_averages.golden_cross
    /\ ~a.moving_averages.death_cross
    /\ a.moving_averages.sma_50_above_sma_200 # "False"
    /\ a.macd.present /\ a.macd.macd_above_signal /\ a.macd.macd_positive
    /\ a.rsi.present /\ a.rsi.value = 6500 /\ ~a.rsi.overbought /\ ~a.rsi.oversold
    /\ pred.kind = "dict" /\ pred.direction = "up" /\ pred.confidence = 80

\* C6: in the all-bullish scenario the verdict is STRONG BUY with confidence
\* above 70, whatever SMA20-vs-SMA50, stochastic and Bollinger say.
C6_AllBullish ==
    (Returned /\ BullishScenario(analysis_results, prediction))
        => (result.verdict = "STRONG BUY" /\ result.confidence > 70)

\* C6 witness: the scenario with every free signal bearish.
C6_Witness ==
    /\ Returned
    /\ BullishScenario(analysis_results, prediction)
    /\ ~analysis_results.moving_averages.sma_20_above_sma_50
    /\ analysis_results.stochastic.overbought
    /\ analysis_results.bollinger_bands.near_upper
    /\ result.verdict = "STRONG BUY"

\* The mirror scenario: price below the three SMAs, death cross (so no golden
\* cross and SMA50 below SMA200), MACD below signal and negative, RSI 35
\* with neither flag, prediction 'down' at 0.8.
BearishScenario(a, pred) ==
    /\ ~a.error
    /\ a.moving_averages.present
    /\ ~a.moving_averages.price_above_sma_20
    /\ ~a.moving_averages.price_above_sma_50
    /\ a.moving_averages.price_above_sma_200 = "False"
    /\ a.moving_averages.death_cross
    /\ ~a.moving_averages.golden_cross
    /\ a.moving_averages.sma_50_above_sma_200 # "True"
    /\ a.macd.present /\ ~a.macd.macd_above_signal /\ ~a.macd.macd_positive
    /\ a.rsi.present /\ a.rsi.value = 3500 /\ ~a.rsi.overbought /\ ~a.rsi.oversold
    /\ pred.kind = "dict" /\ pred.direction = "down" /\ pred.confidence = 80

\* C7: in the all-bearish mirror scenario the verdict is STRONG SELL.
C7_AllBearish ==
    (Returned /\ BearishScenario(analysis_results, prediction))
        => result.verdict = "STRONG SELL"

\* C7 witness: the scenario with every free signal bullish.
C7_Witness ==
    /\ Returned
    /\ BearishScenario(analysis_results, prediction)
    /\ analysis_results.moving_averages.sma_20_above_sma_50
    /\ analysis_results.stochastic.oversold
    /\ analysis_results.bollinger_bands.near_lower
    /\ result.verdict = "STRONG SELL"

Verdicts == {"STRONG BUY", "BUY", "HOLD", "SELL", "STRONG SELL"}

\* C9: every result has a verdict among the five, an integer confidence in
\* [0,100] and at most 5 reasons.
C9_ResultShape ==
    Returned =>
        /\ result.verdict \in Verdicts
        /\ result.confidence \in 0..100
        /\ Len(result.reasons) <= 5

\* C9 witness: more than five reasons were collected and five are returned.
C9_Witness ==
    /\ Returned
    /\ Len(scores.reasons) > 5
    /\ Len(result.reasons) = 5
    /\ result.confidence \in 1..99

\* The locals as the technical signals alone leave them
TechnicalScores == CollectScores(analysis_results, NonePrediction)

\* floor(confidence x 5), the confidence in hundredths
FloorTimesFive(c) == CHOOSE n \in 0..(5 * c) : 100 * n <= 5 * c /\ 5 * c < 100 * (n + 1)

\* C10: a supplied prediction adds floor(confidence x 5) to buy when it is
\* 'up' above 0.6, the same to sell when it is 'down' above 0.6, and otherwise
\* exactly 2 to hold with the reason 'AI prediction is uncertain'; the two
\* other totals are left alone.
C10_PredictionContribution ==
    (Returned /\ ~EmptyOrError(analysis_results) /\ prediction.kind = "dict") =>
        LET t == TechnicalScores
            c == prediction.confidence
            up == prediction.direction = "up" /\ c > 60
            down == prediction.direction = "down" /\ c > 60
        IN  /\ scores.buy_score = t.buy_score + (IF up THEN FloorTimesFive(c) ELSE 0)
            /\ scores.sell_score = t.sell_score + (IF down THEN FloorTimesFive(c) ELSE 0)
            /\ scores.hold_score = t.hold_score + (IF up \/ down THEN 0 ELSE 2)
            /\ (~up /\ ~down) =>
                   scores.reasons = Append(t.reasons, "AI prediction is uncertain")
            /\ Len(scores.reasons) = Len(t.reasons) + 1

\* C10 witness: an 'up' prediction at exactly 0.6 went to hold.
C10_Witness ==
    /\ Returned
    /\ ~EmptyOrError(analysis_results)
    /\ prediction.kind = "dict" /\ prediction.direction = "up"
    /\ prediction.confidence = 60
    /\ scores.hold_score = 2
    /\ scores.buy_score = TechnicalScores.buy_score

-----------------------------------------------------------------------------
(* predict_stock_movement, lines 301-339: the direction and confidence the  *)
(* classifier gives and the boost from the technical signals.               *)
(* direction_prob is the probability of class 1 (up) in hundredths; the     *)
(* probability of class 0 is its complement.  With 100 trees voting the     *)
(* probabilities are whole hundredths, which round(confidence, 2) keeps.    *)

\* lines 302-307
Classify(prob_up) ==
    IF prob_up > 50
    THEN [direction |-> "up", confidence |-> prob_up]
    ELSE [direction |-> "down", confidence |-> 100 - prob_up]

\* min(confidence + amount, 0.95)
BoostBy(confidence, amount) ==
    IF confidence + amount < 95 THEN confidence + amount ELSE 95

\* line 310: analysis_results and not isinstance(analysis_results, str)
\*           and 'error' not in analysis_results
UsableAnalysis(a) ==
    /\ ~a.error
    /\ (a.moving_averages.present \/ a.macd.present \/ a.rsi.present
        \/ a.stochastic.present \/ a.bollinger_bands.present)

\* lines 317-330; a group that is missing is the empty dict, whose get() is None
BoostConfidence(direction, confidence, a) ==
    IF ~UsableAnalysis(a) THEN confidence
    ELSE
      LET ma == a.moving_averages
          rsi == a.rsi
          macd == a.macd
      IN  IF direction = "up"
          THEN LET c1 == IF ma.present /\ ma.golden_cross
                         THEN BoostBy(confidence, 10) ELSE confidence
                   c2 == IF rsi.present /\ rsi.oversold THEN BoostBy(c1, 5) ELSE c1
               IN  IF macd.present /\ macd.macd_above_signal /\ macd.macd_positive
                   THEN BoostBy(c2, 5) ELSE c2
          ELSE LET c1 == IF ma.present /\ ma.death_cross
                         THEN BoostBy(confidence, 10) ELSE confidence
                   c2 == IF rsi.present /\ rsi.overbought THEN BoostBy(c1, 5) ELSE c1
               IN  IF ~(macd.present /\ macd.macd_above_signal)
                      /\ ~(macd.present /\ macd.macd_positive)
                   THEN BoostBy(c2, 5) ELSE c2

\* lines 333-339: direction, round(confidence, 2)
ModelPrediction(direction, confidence) ==
    [kind |-> "dict", direction |-> direction, confidence |-> confidence]

\* The signal sets the boost reads: crosses, RSI flags, MACD flags
BoostSignalSets ==
    { a \in SignalSets \cup ErrorSignalSets :
        /\ a.stochastic = NoStochastic
        /\ a.bollinger_bands = NoBollinger
        /\ a.moving_averages.present =>
              /\ a.moving_averages.price_above_sma_20
              /\ a.moving_averages.price_above_sma_50
              /\ a.moving_averages.sma_20_above_sma_50
              /\ a.moving_averages.price_above_sma_200 = "None" }

NotClassified == [direction |-> "unknown", confidence |-> 0]

InitBoost ==
    /\ analysis_results \in BoostSignalSets
    /\ direction_prob \in 0..100
    /\ classified = NotClassified
    /\ prediction = NonePrediction
    /\ pc = "classify"
    /\ scores = NoScores
    /\ result = NoResult
    /\ IdleLifecycle /\ IdleTA /\ IdleFeatures /\ IdleAnalyze

\* lines 301-339 in one step
ClassifyAndBoost ==
    /\ pc = "classify"
    /\ classified' = Classify(direction_prob)
    /\ prediction' = ModelPrediction(Classify(direction_prob).direction,
                                     BoostConfidence(Classify(direction_prob).direction,
                                                     Classify(direction_prob).confidence,
                                                     analysis_results))
    /\ pc' = "predicted"
    /\ UNCHANGED <<analysis_results, direction_prob, scores, result, store, requests, ta, fp,
                   response>>

NextBoost == ClassifyAndBoost

SpecBoost == InitBoost /\ [][NextBoost]_vars

\* C11: boosting never flips the direction, and for every pre-boost
\* confidence in [0.5, 1.0] and every combination of signals the boosted
\* confidence is >= the pre-boost confidence and <= 0.95.
C11_BoostMonotoneCapped ==
    (pc = "predicted" /\ classified.confidence \in 50..100) =>
        /\ prediction.direction = classified.direction
        /\ prediction.confidence >= classified.confidence
        /\ prediction.confidence <= 95

-----------------------------------------------------------------------------
(* predict_stock_movement and train_prediction_model: the per-symbol model  *)
(* lifecycle over the files under models/.  A request is one call of        *)
(* predict_stock_movement made by analyze_stock or get_watchlist, which     *)
(* call it only with a non-empty series (app.py lines 40 and 194).  The     *)
(* server runs requests on concurrent threads and the code takes no lock,   *)
(* so every file access is a step of its own.                               *)

\* How many requests are in flight together
MaxRequests == 2

RequestIds == 1..MaxRequests

Symbols == {"RELIANCE.NS", "TCS.NS"}

\* The file-name stem used when the index of the series is not named 'Symbol'
DefaultSymbol == "STOCK"

\* What fetch_stock_data names the index of the series it returns
IndexNames == {"Date"}

\* lines 216-222: symbol
ArtifactKey(req) ==
    IF req.index_name = "Symbol" THEN req.symbol ELSE DefaultSymbol

Keys == Symbols \cup {DefaultSymbol}

\* The four files of lines 225-228, in the order they are written and loaded
ArtifactKinds == <<"direction_model", "return_model", "scaler", "features">>

KindSet == {ArtifactKinds[i] : i \in 1..Len(ArtifactKinds)}

\* A file that does not exist. `content` tells how much of a file is there,
\* `writers` the runs that hold it open for writing, and `mix` whether runs
\* wrote it at the same time since it was last written by one run alone
Absent == [run |-> 0, data |-> "none", content |-> "none", writers |-> {},
           mix |-> "alone"]

\* The file a training run of request `run` on the series of `symbol` leaves
\* when nothing else writes it
Artifact(run, symbol) ==
    [run |-> run, data |-> symbol, content |-> "whole", writers |-> {},
     mix |-> "alone"]

\* A training run that completed before the requests modelled here
EarlierRun == MaxRequests + 1

EmptyStore == [k \in Keys |-> [a \in KindSet |-> Absent]]

\* os.path.exists of lines 231-234
Exists(st, key, kind) == st[key][kind] # Absent

AllExist(st, key) == \A a \in KindSet : Exists(st, key, a)

\* len(df) < 100
MinTrainingRows == 100

\* Where the pipeline of one request breaks
Faults == {"none", "train_raises", "load_raises", "features_raises", "features_empty",
           "scaling_raises"}

\* What generate_prediction gives: a direction and confidence, 'unknown' on
\* its own errors; "raises" is an exception while the chart data is built
Advisories ==
    {[direction |-> "raises", confidence |-> 0],
     [direction |-> "unknown", confidence |-> 0],
     [direction |-> "up", confidence |-> 80],
     [direction |-> "down", confidence |-> 80],
     [direction |-> "down", confidence |-> 150]}

NoAdvisory == [direction |-> "unknown", confidence |-> 0]

NoOutcome ==
    [status |-> "none", direction |-> "unknown", confidence |-> 0,
     predicted_return |-> 0, error |-> "",
     source |-> "", sources |-> "", ai_direction |-> "None", ai_confidence |-> 0,
     combined_direction |-> "None", combined_confidence |-> 0]

\* lines 237-242, 258-263, 294-299: the error dict returned at once
ErrorResult(text) ==
    [NoOutcome EXCEPT !.status = "returned", !.error = text]

Raised == [NoOutcome EXCEPT !.status = "raised"]

\* A test that takes every answer of the provider, 'unknown' too
AdvisoryAvailableAny(adv) == adv.direction # "raises"

\* line 368 / 432: the advisory opinion is usable
AdvisoryAvailable(adv) == adv.direction \in {"up", "down"}

\* lines 396-442: the outer except handler
ExceptResult(req) ==
    LET error_result == [NoOutcome EXCEPT !.status = "returned",
                                          !.error = "Prediction error",
                                          !.source = "model"]
    IN  IF req.use_ai /\ AdvisoryAvailable(req.advisory)
        THEN [error_result EXCEPT !.ai_direction = req.advisory.direction,
                                  !.ai_confidence = req.advisory.confidence,
                                  !.combined_direction = req.advisory.direction,
                                  !.combined_confidence = req.advisory.confidence,
                                  !.sources = "ai"]
        ELSE error_result

\* lines 301-394: the model's prediction, boosted, and the advisory opinion
\* combined with it
PredictionResult(req, a) ==
    LET c == Classify(req.prob)
        confidence == BoostConfidence(c.direction, c.confidence, a)
        prediction_result == [NoOutcome EXCEPT !.status = "returned",
                                               !.direction = c.direction,
                                               !.confidence = confidence,
                                               !.predicted_return = req.predicted_return,
                                               !.source = "model"]
        adv == req.advisory
    IN  IF req.use_ai /\ AdvisoryAvailable(adv)
        THEN IF c.direction = adv.direction
             THEN [prediction_result EXCEPT
                      !.ai_direction = adv.direction,
                      !.ai_confidence = adv.confidence,
                      !.combined_confidence = IF confidence + 10 < 95
                                              THEN confidence + 10 ELSE 95,
                      !.combined_direction = c.direction,
                      !.sources = "model,ai"]
             ELSE IF confidence >= adv.confidence
             THEN [prediction_result EXCEPT
                      !.ai_direction = adv.direction,
                      !.ai_confidence = adv.confidence,
                      !.combined_confidence = confidence,
                      !.combined_direction = c.direction,
                      !.sources = "model,ai"]
             ELSE [prediction_result EXCEPT
                      !.ai_direction = adv.direction,
                      !.ai_confidence = adv.confidence,
                      !.combined_confidence = adv.confidence,
                      !.combined_direction = adv.direction,
                      !.sources = "model,ai"]
        ELSE prediction_result

NothingLoaded == [a \in KindSet |-> Absent]

\* ret_model.predict(...)[0] * 100 rounded to two places, in hundredths: a
\* predicted return of -1.20 per cent
PredictedReturn == 0 - 120

\* A request as analyze_stock issues it
NewRequest(symbol, usable_rows, fault, advisory, use_ai, prob, predicted_return) ==
    [symbol |-> symbol, index_name |-> "Date", usable_rows |-> usable_rows,
     fault |-> fault, advisory |-> advisory, use_ai |-> use_ai, prob |-> prob,
     predicted_return |-> predicted_return,
     pc |-> "check", seen |-> {}, trained |-> FALSE, written |-> {},
     loaded |-> NothingLoaded, outcome |-> NoOutcome]

\* A request slot that is not used
NotIssued ==
    [NewRequest("RELIANCE.NS", 0, "none", NoAdvisory, FALSE, 0, 0) EXCEPT !.pc = "idle"]

\* Replace one request's record
SetRequest(r, req) == [requests EXCEPT ![r] = req]

\* The kind written or loaded after kind number i, or the step that follows
NextStep(prefix, i, after) ==
    IF i < Len(ArtifactKinds) THEN prefix \o ArtifactKinds[i + 1] ELSE after

\* A test that trains only when all four files are missing
MustTrainAllMissing(st, key) == \A a \in KindSet : ~Exists(st, key, a)

\* lines 231-234 with the store read as it is at this moment
MustTrain(st, key) == ~AllExist(st, key)

\* A test that also rejects exactly 100 rows
TooFewRowsInclusive(usable_rows) == usable_rows <= MinTrainingRows

\* lines 139-142: if len(df) < 100
TooFewRows(usable_rows) == usable_rows < MinTrainingRows

\* What a step of the lifecycle leaves alone
RestUnchanged ==
    UNCHANGED <<analysis_results, prediction, pc, scores, result,
                direction_prob, classified, ta, fp, response>>

\* lines 224-234: the existence check
CheckArtifacts(r) ==
    LET req == requests[r]
        key == ArtifactKey(req)
    IN  /\ req.pc = "check"
        /\ requests' = SetRequest(r,
              [req EXCEPT !.seen = {a \in KindSet : Exists(store, key, a)},
                          !.pc = IF MustTrain(store, key)
                                 THEN "train" ELSE "load_direction_model"])
        /\ UNCHANGED store
        /\ RestUnchanged

\* line 235 and train_prediction_model lines 137-176: features, the row
\* count test and the fitting, up to the first file write
Train(r) ==
    LET req == requests[r]
    IN  /\ req.pc = "train"
        /\ requests' = SetRequest(r,
              IF req.fault = "train_raises"
              THEN [req EXCEPT !.trained = TRUE, !.pc = "done", !.outcome = Raised]
              ELSE IF TooFewRows(req.usable_rows)
              THEN [req EXCEPT !.trained = TRUE, !.pc = "done",
                               !.outcome = ErrorResult("Insufficient data for training")]
              ELSE [req EXCEPT !.trained = TRUE, !.pc = "write_direction_model"])
        /\ UNCHANGED store
        /\ RestUnchanged

\* The series a request trains on: the symbol and the timeframe, which
\* fixes the number of rows
Series(req) == <<req.symbol, req.usable_rows>>

\* The bytes a run writes to a file: the three joblib files depend on the
\* series, the feature list is the same text for every run
Bytes(req, kind) == IF kind = "features" THEN <<>> ELSE Series(req)

\* How the runs that write a file together relate, once run r joins them
Mixed(file, r, kind) ==
    IF file.writers = {} THEN "alone"
    ELSE IF file.mix = "different"
            \/ \E w \in file.writers : Bytes(requests[w], kind) # Bytes(requests[r], kind)
         THEN "different"
         ELSE "same"

\* open(path, 'wb') inside joblib.dump, and open(path, 'w') of line 185: the
\* file is created or truncated, whoever else is writing it
OpenedFile(file, r, symbol, kind) ==
    [run |-> r, data |-> symbol, content |-> "partial",
     writers |-> file.writers \cup {r}, mix |-> Mixed(file, r, kind)]

\* What a file can hold when run r has written its last byte and closed it.
\* Every writer has its own position in the file: a run alone leaves its
\* own output; while another run still writes, the file may be incomplete;
\* runs that wrote different bytes together may leave parts of each
ClosedFiles(file, r, symbol) ==
    LET rest == file.writers \ {r}
        mine == [run |-> r, data |-> symbol, content |-> "whole",
                 writers |-> rest, mix |-> IF rest = {} THEN "alone" ELSE file.mix]
    IN  IF file.mix = "alone" THEN {mine}
        ELSE IF rest # {} THEN {mine, [mine EXCEPT !.content = "partial"]}
        ELSE IF file.mix = "same" THEN {mine}
        ELSE {mine, [mine EXCEPT !.content = "torn"]}

\* train_prediction_model lines 178-186: the opening of one file
OpenArtifact(r, i) ==
    LET req == requests[r]
        key == ArtifactKey(req)
        kind == ArtifactKinds[i]
    IN  /\ req.pc = "write_" \o kind
        /\ store' = [store EXCEPT
                        ![key][kind] = OpenedFile(store[key][kind], r, req.symbol, kind)]
        /\ requests' = SetRequest(r, [req EXCEPT !.pc = "close_" \o kind])
        /\ RestUnchanged

\* train_prediction_model lines 178-186: the writes to one file and its
\* closing
WriteArtifact(r, i) ==
    LET req == requests[r]
        key == ArtifactKey(req)
        kind == ArtifactKinds[i]
    IN  /\ req.pc = "close_" \o kind
        /\ \E file \in ClosedFiles(store[key][kind], r, req.symbol) :
              store' = [store EXCEPT ![key][kind] = file]
        /\ requests' = SetRequest(r,
              [req EXCEPT !.written = @ \cup {kind},
                          !.pc = NextStep("write_", i, "load_direction_model")])
        /\ RestUnchanged

\* joblib.load of a missing, incomplete or mixed file raises; the feature
\* list of lines 251-252 is read as far as it is written
Unreadable(file, kind) ==
    \/ file.content = "none"
    \/ kind # "features" /\ file.content # "whole"

\* What a reader gets of a file: its bytes, not who writes it
Read(file) == [file EXCEPT !.writers = {}, !.mix = "alone"]

\* lines 246-252: one joblib.load or file read; a failure goes to the
\* handler of line 396
LoadArtifact(r, i) ==
    LET req == requests[r]
        key == ArtifactKey(req)
        kind == ArtifactKinds[i]
    IN  /\ req.pc = "load_" \o kind
        /\ requests' = SetRequest(r,
              IF req.fault = "load_raises" \/ Unreadable(store[key][kind], kind)
              THEN [req EXCEPT !.pc = "done", !.outcome = ExceptResult(req)]
              ELSE [req EXCEPT !.loaded[kind] = Read(store[key][kind]),
                               !.pc = NextStep("load_", i, "infer")])
        /\ UNCHANGED store
        /\ RestUnchanged

\* lines 254-394: features of the series, scaling, inference, boost and
\* the advisory opinion
Infer(r) ==
    LET req == requests[r]
    IN  /\ req.pc = "infer"
        /\ requests' = SetRequest(r,
              [req EXCEPT !.pc = "done",
                          !.outcome =
                             CASE req.fault = "features_raises" -> ExceptResult(req)
                               [] req.fault = "features_empty" ->
                                     ErrorResult("Failed to prepare features")
                               [] req.fault = "scaling_raises"
                                  \/ req.loaded["features"].content # "whole" ->
                                     ErrorResult("Error during prediction scaling")
                               [] OTHER -> PredictionResult(req, analysis_results)])
        /\ UNCHANGED store
        /\ RestUnchanged

\* The store before the requests: nothing trained yet, an earlier complete
\* run, or an earlier run whose features file was removed
InitialStores ==
    LET full == [EmptyStore EXCEPT
                    ![DefaultSymbol] = [a \in KindSet |-> Artifact(EarlierRun, "RELIANCE.NS")]]
    IN  {EmptyStore, full, [full EXCEPT ![DefaultSymbol]["features"] = Absent]}

UsableRows == {MinTrainingRows - 1, MinTrainingRows, MinTrainingRows + 1}

\* Requests that run together, none of them failing
ConcurrentRequests ==
    [RequestIds -> {NewRequest(s, n, "none", NoAdvisory, FALSE, p, PredictedReturn) :
                        s \in Symbols, n \in UsableRows, p \in {70}}]

\* One request alone, with every failure and every advisory opinion
SingleRequests ==
    {[r \in RequestIds |->
         IF r = 1 THEN NewRequest(s, n, f, adv, ai, p, PredictedReturn) ELSE NotIssued] :
        s \in Symbols, n \in UsableRows, f \in Faults, adv \in Advisories,
        ai \in BOOLEAN, p \in {30, 70}}

\* The technical analysis handed to the boost
LifecycleSignalSets ==
    {EmptySignalSet,
     [EmptySignalSet EXCEPT
         !.moving_averages = [NoMovingAverages EXCEPT !.present = TRUE,
                                                      !.price_above_sma_20 = TRUE,
                                                      !.price_above_sma_50 = TRUE,
                                                      !.price_above_sma_200 = "True",
                                                      !.sma_20_above_sma_50 = TRUE,
                                                      !.sma_50_above_sma_200 = "True",
                                                      !.golden_cross = TRUE]]}

InitLifecycle ==
    /\ store \in InitialStores
    /\ requests \in ConcurrentRequests \cup SingleRequests
    /\ analysis_results \in IF requests \in ConcurrentRequests
                             THEN {EmptySignalSet} ELSE LifecycleSignalSets
    /\ prediction = NonePrediction
    /\ pc = "start"
    /\ scores = NoScores
    /\ result = NoResult
    /\ IdleBoost /\ IdleTA /\ IdleFeatures /\ IdleAnalyze

NextLifecycle ==
    \/ \E r \in RequestIds : CheckArtifacts(r)
    \/ \E r \in RequestIds : Train(r)
    \/ \E r \in RequestIds : \E i \in 1..Len(ArtifactKinds) : OpenArtifact(r, i)
    \/ \E r \in RequestIds : \E i \in 1..Len(ArtifactKinds) : WriteArtifact(r, i)
    \/ \E r \in RequestIds : \E i \in 1..Len(ArtifactKinds) : LoadArtifact(r, i)
    \/ \E r \in RequestIds : Infer(r)

SpecLifecycle == InitLifecycle /\ [][NextLifecycle]_vars

-----------------------------------------------------------------------------
(* Claims about the model lifecycle *)

\* The request has passed the existence check
Checked(req) == req.pc \notin {"idle", "check"}

\* The request is loading artifacts or has gone past loading
Loading(req) ==
    \/ req.pc \in {"load_" \o ArtifactKinds[i] : i \in 1..Len(ArtifactKinds)}
    \/ req.pc = "infer"
    \/ req.loaded # NothingLoaded

\* C12: a request trains if and only if one of the four artifacts under its
\* key was missing at the existence check; a request that trains has written
\* all four files before it loads any of them, and a request that found all
\* four neither trains nor writes.
C12_TrainsIffMissing ==
    \A r \in RequestIds :
        LET req == requests[r]
        IN  Checked(req) =>
               /\ (req.seen # KindSet) <=> (req.trained \/ req.pc = "train")
               /\ (req.trained /\ Loading(req)) => req.written = KindSet
               /\ (req.seen = KindSet) => (~req.trained /\ req.written = {})

C12_Witness ==
    /\ requests[1].pc = "done" /\ requests[1].trained
    /\ requests[1].written = KindSet
    /\ requests[1].outcome.direction = "up"
    /\ requests[2].pc = "done" /\ requests[2].seen = KindSet
    /\ ~requests[2].trained
    /\ requests[2].outcome.direction = "up"

\* The request ran train_prediction_model and the fitting did not raise
TrainingRan(req) == req.trained /\ req.fault # "train_raises"

\* C13: training on fewer than 100 usable rows writes no artifact and the
\* request returns direction 'unknown', confidence 0 and the error text
\* 'Insufficient data for training'; training on exactly 100 usable rows
\* goes on to write all four artifacts before the request loads them.
C13_MinimumRows ==
    \A r \in RequestIds :
        LET req == requests[r]
        IN  /\ (TrainingRan(req) /\ req.usable_rows < 100) =>
                  /\ req.written = {}
                  /\ req.pc = "done"
                  /\ req.outcome.status = "returned"
                  /\ req.outcome.direction = "unknown"
                  /\ req.outcome.confidence = 0
                  /\ req.outcome.error = "Insufficient data for training"
            /\ (TrainingRan(req) /\ req.usable_rows = 100) =>
                  /\ req.outcome.error # "Insufficient data for training"
                  /\ req.pc \in {p \o ArtifactKinds[i] :
                                    p \in {"write_", "close_"}, i \in 1..Len(ArtifactKinds)}
                     \/ req.written = KindSet

C13_Witness ==
    /\ requests[1].usable_rows = 99 /\ requests[1].trained
    /\ requests[1].pc = "done" /\ requests[1].written = {}
    /\ requests[1].outcome.error = "Insufficient data for training"
    /\ requests[2].usable_rows = 100 /\ requests[2].trained
    /\ requests[2].written = KindSet

\* The request has ended, by a return or by an exception leaving the call
Ended(req) == req.pc = "done"

\* The pipeline of the request broke at one of its steps
PipelineFailed(req) ==
    /\ Ended(req)
    /\ \/ req.outcome.status = "raised"
       \/ req.outcome.error # ""

\* C14: no call of predict_stock_movement ends with an exception: whenever
\* a step of the pipeline fails, the call returns direction 'unknown',
\* confidence 0 and a non-empty error text.
C14_NeverRaises ==
    \A r \in RequestIds :
        LET req == requests[r]
        IN  /\ Ended(req) => req.outcome.status = "returned"
            /\ PipelineFailed(req) =>
                  /\ req.outcome.direction = "unknown"
                  /\ req.outcome.confidence = 0
                  /\ req.outcome.error # ""

\* The request returned an error result: training, loading or inference failed
ModelFailed(req) ==
    /\ Ended(req)
    /\ req.outcome.status = "returned"
    /\ req.outcome.error # ""

\* C15: when the advisory opinion is requested, the model prediction failed
\* and the advisory gives 'up' or 'down', the request returns the advisory's
\* direction and confidence, and generate_recommendation scores them as it
\* would score the advisory's opinion.
C15_AdvisoryAloneOnFailure ==
    \A r \in RequestIds :
        LET req == requests[r]
        IN  (req.use_ai /\ AdvisoryAvailable(req.advisory) /\ ModelFailed(req)) =>
               /\ req.outcome.direction = req.advisory.direction
               /\ req.outcome.confidence = req.advisory.confidence
               /\ ConsiderPrediction(InitialScores,
                                     ModelPrediction(req.outcome.direction,
                                                     req.outcome.confidence))
                  = ConsiderPrediction(InitialScores,
                                       ModelPrediction(req.advisory.direction,
                                                       req.advisory.confidence))

\* The training runs whose files the request loaded
LoadedRuns(req) == {req.loaded[a].run : a \in KindSet}

\* The request computed a prediction from four loaded artifacts
PredictedFromBundle(req) ==
    /\ Ended(req)
    /\ req.outcome.status = "returned"
    /\ req.outcome.error = ""

\* C16: a request that computes a prediction has loaded its direction
\* model, return model, scaler and feature list from one training run.
C16_BundleConsistency ==
    \A r \in RequestIds :
        PredictedFromBundle(requests[r]) =>
            \E run \in 1..EarlierRun : LoadedRuns(requests[r]) = {run}

\* C17: every artifact a request writes or loads lies under the key of the
\* request's own symbol, and every artifact it loads was trained on the
\* series of that symbol.
C17_KeyedBySymbol ==
    \A r \in RequestIds :
        LET req == requests[r]
        IN  Checked(req) =>
               /\ ArtifactKey(req) = req.symbol
               /\ \A a \in KindSet :
                     req.loaded[a] # Absent => req.loaded[a].data = req.symbol

-----------------------------------------------------------------------------
(* perform_technical_analysis: the 50-day and 200-day averages, the flags   *)
(* derived from them and the cross detection.  An average is a whole number *)
(* or NaN; SMAIndicator gives NaN until its window is full and whenever a   *)
(* cell of the window is not numeric.                                       *)

\* Truthiness of a float: only 0.0 is falsy, NaN is truthy
FloatTruthy(x) == x # 0

\* Largest price in the model
MaxPrice == 2

Prices == 0..MaxPrice

Cells == Prices \cup {NaN}

SMA50Window == 50

SMA200Window == 200

\* Series lengths around the two windows
RowCounts ==
    {1, 2, SMA50Window - 1, SMA50Window, SMA50Window + 1,
     SMA200Window - 1, SMA200Window, SMA200Window + 1}

\* The average over `window` rows ending at the row `back` rows before the
\* last is NaN when the series is too short for it
WindowFull(n, window, back) == n - back >= window

TAFailures == {"none", "missing_column", "raises"}

NoTAResult ==
    [kind |-> "none", sma_200 |-> [kind |-> "absent", value |-> 0],
     price_above_sma_50 |-> "absent", price_above_sma_200 |-> "absent",
     sma_50_above_sma_200 |-> "absent", golden_cross |-> "absent",
     death_cross |-> "absent"]

\* lines 27-29 and 154-155: {'error': ...}
TAError == [NoTAResult EXCEPT !.kind = "error"]

\* bool(x) written as the name Python prints
PyBool(b) == IF b THEN "True" ELSE "False"

\* lines 85 and 87: x > current_sma_200 if current_sma_200 else None
AboveSma200(x, current_sma_200) ==
    IF FloatTruthy(current_sma_200) THEN PyBool(Gt(x, current_sma_200)) ELSE "None"

\* lines 101-102: the comparison of one pair, None when a value is NaN
Sma50Above200(sma_50, sma_200) ==
    IF ~IsNaN(sma_50) /\ ~IsNaN(sma_200) THEN PyBool(sma_50 > sma_200) ELSE "None"

\* lines 97-107
CrossDetection(t) ==
    LET prev == Sma50Above200(t.prev_sma_50, t.prev_sma_200)
        cur  == Sma50Above200(t.sma_50, t.sma_200)
    IN  IF t.n > 1 /\ prev # "None" /\ cur # "None"
        THEN [golden_cross |-> prev = "False" /\ cur = "True",
              death_cross  |-> prev = "True" /\ cur = "False"]
        ELSE [golden_cross |-> FALSE, death_cross |-> FALSE]

\* lines 19-29, 66-124 and 152-155
perform_technical_analysis(t) ==
    IF t.failure # "none" THEN TAError
    ELSE LET cross == CrossDetection(t)
         IN  [kind |-> "dict",
              sma_200 |-> IF FloatTruthy(t.sma_200)
                          THEN IF IsNaN(t.sma_200)
                               THEN [kind |-> "nan", value |-> 0]
                               ELSE [kind |-> "number", value |-> t.sma_200]
                          ELSE [kind |-> "None", value |-> 0],
              price_above_sma_50 |-> PyBool(Gt(t.close, t.sma_50)),
              price_above_sma_200 |-> AboveSma200(t.close, t.sma_200),
              sma_50_above_sma_200 |-> AboveSma200(t.sma_50, t.sma_200),
              golden_cross |-> PyBool(cross.golden_cross),
              death_cross |-> PyBool(cross.death_cross)]

\* The series as the function sees it: its length, the last close and the
\* last two values of the two averages
TAInputs ==
    { t \in [n : RowCounts, close : Cells, sma_50 : Cells, prev_sma_50 : Cells,
             sma_200 : Cells, prev_sma_200 : Cells, failure : TAFailures] :
        /\ ~WindowFull(t.n, SMA50Window, 0) => IsNaN(t.sma_50)
        /\ ~WindowFull(t.n, SMA50Window, 1) => IsNaN(t.prev_sma_50)
        /\ ~WindowFull(t.n, SMA200Window, 0) => IsNaN(t.sma_200)
        /\ ~WindowFull(t.n, SMA200Window, 1) => IsNaN(t.prev_sma_200)
        /\ IsNaN(t.close) => (IsNaN(t.sma_50) /\ IsNaN(t.sma_200)) }

InitTA ==
    /\ \E t \in TAInputs : ta = [input |-> t, pc |-> "start", result |-> NoTAResult]
    /\ analysis_results = EmptySignalSet
    /\ prediction = NonePrediction
    /\ pc = "start"
    /\ scores = NoScores
    /\ result = NoResult
    /\ IdleBoost /\ IdleLifecycle /\ IdleFeatures /\ IdleAnalyze

Analyze ==
    /\ ta.pc = "start"
    /\ ta' = [ta EXCEPT !.pc = "done", !.result = perform_technical_analysis(ta.input)]
    /\ UNCHANGED <<analysis_results, prediction, pc, scores, result,
                   direction_prob, classified, store, requests, fp, response>>

NextTA == Analyze

SpecTA == InitTA /\ [][NextTA]_vars

\* All four averages around the last row are defined
PairsDefined(t) ==
    /\ ~IsNaN(t.prev_sma_50) /\ ~IsNaN(t.prev_sma_200)
    /\ ~IsNaN(t.sma_50) /\ ~IsNaN(t.sma_200)

\* C18: golden_cross is true exactly when the four averages are defined,
\* SMA50 <= SMA200 at t-1 and SMA50 > SMA200 at t; death_cross is true
\* exactly when they are defined, SMA50 >= SMA200 at t-1 and SMA50 < SMA200
\* at t; with a missing value both are false; they are never both true.
C18_Crosses ==
    (ta.pc = "done" /\ ta.result.kind = "dict") =>
        LET t == ta.input
        IN  /\ (ta.result.golden_cross = "True") <=>
                  (PairsDefined(t) /\ t.prev_sma_50 <= t.prev_sma_200
                                   /\ t.sma_50 > t.sma_200)
            /\ (ta.result.death_cross = "True") <=>
                  (PairsDefined(t) /\ t.prev_sma_50 >= t.prev_sma_200
                                   /\ t.sma_50 < t.sma_200)
            /\ ~PairsDefined(t) =>
                  (ta.result.golden_cross = "False" /\ ta.result.death_cross = "False")
            /\ ~(ta.result.golden_cross = "True" /\ ta.result.death_cross = "True")

\* C19: for a series of fewer than 200 rows the call returns, with sma_200,
\* price_above_sma_200 and sma_50_above_sma_200 None or absent and with
\* neither cross flag true.
C19_ShortSeries ==
    (ta.pc = "done" /\ ta.input.n < 200) =>
        /\ ta.result.kind \in {"dict", "error"}
        /\ ta.result.sma_200.kind \in {"None", "absent"}
        /\ ta.result.price_above_sma_200 \in {"None", "absent"}
        /\ ta.result.sma_50_above_sma_200 \in {"None", "absent"}
        /\ ta.result.golden_cross # "True"
        /\ ta.result.death_cross # "True"

-----------------------------------------------------------------------------
(* prepare_features: the feature pipeline.  A cell of the Close or Volume   *)
(* column is a whole number, NaN (a missing cell) or Text (a cell that is   *)
(* not numeric).  A computed cell is known by its kind: "zero", "positive", *)
(* "negative", "nan" or "inf".                                              *)

\* A cell that is not numeric
Text == -2

RawCells == {0, 1, 2, NaN, Text}

\* A column held as its cells, computed once, as pandas holds it
Eager(f) == f @@ <<>>

\* pd.to_numeric(column, errors='coerce')
ToNumeric(s) == Eager([i \in 1..Len(s) |-> IF s[i] = Text THEN NaN ELSE s[i]])

KindOf(x) == IF IsNaN(x) THEN "nan" ELSE IF x = 0 THEN "zero" ELSE "positive"

\* The kind of an untouched cell of the input frame
RawKind(x) == IF x = Text THEN "text" ELSE KindOf(x)

Finite(k) == k \in {"zero", "positive", "negative"}

\* Series.pct_change: fill_method='pad' carries the last valid value forward
\* before the change is computed; later pandas versions do not fill
FillMethods == {"pad", "none"}

Padded(s) ==
    LET p[i \in 1..Len(s)] ==
            IF ~IsNaN(s[i]) THEN s[i] ELSE IF i = 1 THEN NaN ELSE p[i - 1]
    IN  Eager(p)

\* cur / prev - 1 as floats: x/0 is inf, 0/0 is NaN
Change(cur, prev) ==
    IF IsNaN(cur) \/ IsNaN(prev) THEN "nan"
    ELSE IF prev = 0 THEN (IF cur = 0 THEN "nan" ELSE "inf")
    ELSE IF cur = prev THEN "zero" ELSE IF cur > prev THEN "positive" ELSE "negative"

pct_change(s, fill_method) ==
    LET x == IF fill_method = "pad" THEN Padded(s) ELSE s
    IN  Eager([i \in 1..Len(s) |-> IF i = 1 THEN "nan" ELSE Change(x[i], x[i - 1])])

\* Series.shift(k), k positive or negative
shift(col, k) ==
    Eager([i \in 1..Len(col) |->
              IF i - k >= 1 /\ i - k <= Len(col) THEN col[i - k] ELSE "nan"])

\* Index of the last cell at or before i that is NaN, 0 if there is none
LastNaN(s) ==
    LET l[i \in 0..Len(s)] ==
            IF i = 0 THEN 0 ELSE IF IsNaN(s[i]) THEN i ELSE l[i - 1]
    IN  Eager(l)

\* Index of the last cell at or before i that is not 0, 0 if there is none
LastNonZero(s) ==
    LET l[i \in 0..Len(s)] ==
            IF i = 0 THEN 0 ELSE IF s[i] # 0 THEN i ELSE l[i - 1]
    IN  Eager(l)

\* a mean over the cells there are, with no warm-up
rolling_mean_min_periods_1(s, window) ==
    LET bad == LastNaN(s)
        nz  == LastNonZero(s)
    IN  Eager([i \in 1..Len(s) |->
                  IF bad[i] > i - window /\ bad[i] > 0 THEN "nan"
                  ELSE IF nz[i] > i - window /\ nz[i] > 0 THEN "positive" ELSE "zero"])

\* Series.rolling(window).mean(): NaN until the window is full and when a
\* cell of the window is NaN
rolling_mean(s, window) ==
    LET bad == LastNaN(s)
        nz  == LastNonZero(s)
    IN  Eager([i \in 1..Len(s) |->
                  IF i < window \/ bad[i] > i - window THEN "nan"
                  ELSE IF nz[i] > i - window THEN "positive" ELSE "zero"])

\* Index of the last kind at or before i that is "nan" or "inf"
LastNotFinite(col) ==
    LET l[i \in 0..Len(col)] ==
            IF i = 0 THEN 0 ELSE IF ~Finite(col[i]) THEN i ELSE l[i - 1]
    IN  Eager(l)

\* Series.rolling(window).std() of a computed column: NaN until the window
\* is full and when a cell of the window is NaN or infinite; zero when the
\* window is all zeros, and otherwise a finite number, written "positive"
rolling_std(col, window) ==
    LET bad == LastNotFinite(col)
    IN  Eager([i \in 1..Len(col) |->
                  IF i < window \/ bad[i] > i - window THEN "nan"
                  ELSE IF \A j \in (i - window + 1)..i : col[j] = "zero" THEN "zero"
                  ELSE "positive"])

\* lines 49-57 and 70-74: numerator.div(sma.replace(0, nan)).replace(inf, nan)
ratio(s, sma) ==
    Eager([i \in 1..Len(s) |->
              IF IsNaN(s[i]) \/ sma[i] # "positive" THEN "nan" ELSE KindOf(s[i])])

\* lines 77-79: close - close.shift(k)
momentum(s, k) ==
    Eager([i \in 1..Len(s) |->
              IF i - k < 1 THEN "nan"
              ELSE IF IsNaN(s[i]) \/ IsNaN(s[i - k]) THEN "nan"
              ELSE IF s[i] = s[i - k] THEN "zero"
              ELSE IF s[i] > s[i - k] THEN "positive" ELSE "negative"])

\* line 83: np.where(target_return > 0, 1, 0)
target_direction(target_return) ==
    Eager([i \in 1..Len(target_return) |->
              IF target_return[i] \in {"positive", "inf"} THEN "positive" ELSE "zero"])

\* The columns of the returned frame, apart from Open, High and Low, which
\* the function does not read
Columns ==
    {"Close", "Volume", "return", "return_1d", "return_2d", "return_3d", "return_5d",
     "return_10d", "sma_5", "sma_10", "sma_20", "sma_50", "price_sma_5_ratio",
     "price_sma_10_ratio", "price_sma_20_ratio", "price_sma_50_ratio", "volatility_5d",
     "volatility_10d", "volatility_20d", "volume_change", "volume_sma_5", "volume_sma_10",
     "volume_ratio_5", "volume_ratio_10", "momentum_5d", "momentum_10d", "momentum_20d",
     "target_return", "target_direction"}

ratio_columns ==
    {"price_sma_5_ratio", "price_sma_10_ratio", "price_sma_20_ratio", "price_sma_50_ratio",
     "volume_ratio_5", "volume_ratio_10"}

return_columns ==
    {"return", "return_1d", "return_2d", "return_3d", "return_5d", "return_10d",
     "target_return"}

volatility_columns == {"volatility_5d", "volatility_10d", "volatility_20d"}

momentum_columns == {"momentum_5d", "momentum_10d", "momentum_20d"}

\* train_prediction_model lines 144-150
feature_columns ==
    {"return_1d", "return_2d", "return_3d", "return_5d", "return_10d",
     "price_sma_5_ratio", "price_sma_10_ratio", "price_sma_20_ratio", "price_sma_50_ratio",
     "volatility_5d", "volatility_10d", "volatility_20d",
     "volume_change", "volume_ratio_5", "volume_ratio_10",
     "momentum_5d", "momentum_10d", "momentum_20d"}

\* lines 25-83: every column as computed, before any replacement or fill
ComputedColumns(in) ==
    LET close  == ToNumeric(in.close)
        volume == ToNumeric(in.volume)
        ret    == pct_change(close, in.fill_method)
        sma_5  == rolling_mean(close, 5)
        sma_10 == rolling_mean(close, 10)
        sma_20 == rolling_mean(close, 20)
        sma_50 == rolling_mean(close, 50)
        volume_sma_5  == rolling_mean(volume, 5)
        volume_sma_10 == rolling_mean(volume, 10)
        target_return == shift(ret, -1)
    IN  [c \in Columns |->
            CASE c = "Close"  -> Eager([i \in 1..Len(in.close) |-> RawKind(in.close[i])])
              [] c = "Volume" -> Eager([i \in 1..Len(in.volume) |-> RawKind(in.volume[i])])
              [] c = "return" -> ret
              [] c = "return_1d" -> shift(ret, 1)
              [] c = "return_2d" -> shift(ret, 2)
              [] c = "return_3d" -> shift(ret, 3)
              [] c = "return_5d" -> shift(ret, 5)
              [] c = "return_10d" -> shift(ret, 10)
              [] c = "sma_5" -> sma_5
              [] c = "sma_10" -> sma_10
              [] c = "sma_20" -> sma_20
              [] c = "sma_50" -> sma_50
              [] c = "price_sma_5_ratio" -> ratio(close, sma_5)
              [] c = "price_sma_10_ratio" -> ratio(close, sma_10)
              [] c = "price_sma_20_ratio" -> ratio(close, sma_20)
              [] c = "price_sma_50_ratio" -> ratio(close, sma_50)
              [] c = "volatility_5d" -> rolling_std(ret, 5)
              [] c = "volatility_10d" -> rolling_std(ret, 10)
              [] c = "volatility_20d" -> rolling_std(ret, 20)
              [] c = "volume_change" -> pct_change(volume, in.fill_method)
              [] c = "volume_sma_5" -> volume_sma_5
              [] c = "volume_sma_10" -> volume_sma_10
              [] c = "volume_ratio_5" -> ratio(volume, volume_sma_5)
              [] c = "volume_ratio_10" -> ratio(volume, volume_sma_10)
              [] c = "momentum_5d" -> momentum(close, 5)
              [] c = "momentum_10d" -> momentum(close, 10)
              [] c = "momentum_20d" -> momentum(close, 20)
              [] c = "target_return" -> target_return
              [] c = "target_direction" -> target_direction(target_return)]

\* The frame left as it is
KeepInfinities(cols) == cols

\* line 88: df.replace([np.inf, -np.inf], np.nan)
ReplaceInfinities(cols) ==
    [c \in DOMAIN cols |->
        Eager([i \in 1..Len(cols[c]) |-> IF cols[c][i] = "inf" THEN "nan" ELSE cols[c][i]])]

\* Series.fillna(value)
fillna(col, value) ==
    Eager([i \in 1..Len(col) |-> IF col[i] = "nan" THEN value ELSE col[i]])

\* Series.mean(): NaN when no cell is a number, infinite when a cell is
mean(col) ==
    IF \E i \in 1..Len(col) : col[i] = "inf" THEN "inf"
    ELSE IF \E i \in 1..Len(col) : col[i] = "positive" THEN "positive"
    ELSE IF \E i \in 1..Len(col) : col[i] = "negative" THEN "negative"
    ELSE IF \E i \in 1..Len(col) : col[i] = "zero" THEN "zero"
    ELSE "nan"

\* lines 90-119: the fill policy
FillDefaults(cols) ==
    [c \in DOMAIN cols |->
        IF c \in ratio_columns \cup return_columns \cup momentum_columns
        THEN fillna(cols[c], IF c \in ratio_columns THEN "positive" ELSE "zero")
        ELSE IF c \in volatility_columns
        THEN LET mean_val == mean(cols[c])
             IN  fillna(cols[c], IF mean_val # "nan" THEN mean_val ELSE "positive")
        ELSE cols[c]]

\* line 123: df.dropna(), the rows that have no NaN cell, in order, each
\* under the index label it had in the series
dropna(cols, n) ==
    LET keep == {i \in 1..n : \A c \in DOMAIN cols : cols[c][i] # "nan"}
        rows[i \in 0..n] ==
            IF i = 0 THEN <<>>
            ELSE IF i \in keep
            THEN Append(rows[i - 1],
                        [c \in DOMAIN cols \cup {"index"} |->
                            IF c = "index" THEN i ELSE cols[c][i]])
            ELSE rows[i - 1]
    IN  rows[n]

\* lines 13-125
prepare_features(in) ==
    LET computed == Eager(ComputedColumns(in))
        replaced == Eager(ReplaceInfinities(computed))
        filled   == Eager(FillDefaults(replaced))
    IN  dropna(filled, Len(in.close))

\* lines 265-286: the latest row over the feature columns, infinities
\* replaced and NaN filled by the name of the column
LatestFeatures(rows) ==
    LET latest == rows[Len(rows)]
    IN  [c \in feature_columns |->
            LET v == IF latest[c] = "inf" THEN "nan" ELSE latest[c]
            IN  IF v # "nan" THEN v
                ELSE IF c \in ratio_columns \cup volatility_columns THEN "positive"
                ELSE "zero"]

\* The longest window of the pipeline: rolling(window=50)
LongestWindow == 50

\* How many rows the longest series has beyond the longest window
MaxExtraRows == 1

SeriesLengths == (LongestWindow - 1)..(LongestWindow + MaxExtraRows)

\* Where a series of n rows may hold a cell that differs from the others
DefectPositions(n) == {1, n - 2, n - 1, n}

NoDefect == [pos |-> 0, value |-> 0]

Defects(n) == {NoDefect} \cup [pos : DefectPositions(n), value : RawCells]

\* A column of n cells, all `base` except for the defect
Column(n, base, defect) ==
    Eager([i \in 1..n |-> IF i = defect.pos THEN defect.value ELSE base])

\* A series by its length, the value of its ordinary cells and its defects
FeatureInputs ==
    UNION { [n : {n}, close_base : {0, 1}, volume_base : {0, 1},
             close_defect : Defects(n), volume_defect : Defects(n),
             fill_method : FillMethods] : n \in SeriesLengths }

\* The frame handed to prepare_features
StockData(in) ==
    [close |-> Column(in.n, in.close_base, in.close_defect),
     volume |-> Column(in.n, in.volume_base, in.volume_defect),
     fill_method |-> in.fill_method]

NoLatest == [c \in feature_columns |-> "absent"]

InitFeatures ==
    /\ \E in \in FeatureInputs :
          fp = [input |-> in, pc |-> "start", rows |-> <<>>, latest |-> NoLatest]
    /\ analysis_results = EmptySignalSet
    /\ prediction = NonePrediction
    /\ pc = "start"
    /\ scores = NoScores
    /\ result = NoResult
    /\ IdleBoost /\ IdleLifecycle /\ IdleTA /\ IdleAnalyze

\* predict_stock_movement lines 254-286: prepare_features, then the latest
\* row unless the frame is empty
PrepareFeatures ==
    /\ fp.pc = "start"
    /\ LET rows == prepare_features(StockData(fp.input))
       IN  fp' = [fp EXCEPT !.pc = "done", !.rows = rows,
                            !.latest = IF rows = <<>> THEN NoLatest
                                       ELSE LatestFeatures(rows)]
    /\ UNCHANGED <<analysis_results, prediction, pc, scores, result,
                   direction_prob, classified, store, requests, ta, response>>

NextFeatures == PrepareFeatures

SpecFeatures == InitFeatures /\ [][NextFeatures]_vars

\* C20: no cell of a row that prepare_features returns is NaN or infinite,
\* and no cell of the latest feature row handed to the scaler is.
C20_FiniteFeatures ==
    fp.pc = "done" =>
        /\ \A i \in 1..Len(fp.rows) : \A c \in Columns : fp.rows[i][c] \notin {"nan", "inf"}
        /\ fp.rows # <<>> => \A c \in feature_columns : Finite(fp.latest[c])

C20_Witness ==
    /\ fp.pc = "done"
    /\ Len(fp.rows) >= 1
    /\ fp.input.volume_defect.pos > 0 /\ fp.input.volume_defect.value = 0
    /\ fp.input.volume_base = 1
    /\ fp.input.close_defect.pos > 0 /\ fp.input.close_defect.value = Text
    /\ \A c \in feature_columns : Finite(fp.latest[c])

-----------------------------------------------------------------------------
(* analyze_stock: the /analyze handler.  The response is known by its HTTP  *)
(* status and by the keys of its JSON body.                                 *)

\* What the handler meets on one request
AnalyzeInputs ==
    [symbol : {"", "TCS"},                    \* data.get('symbol', '')
     use_realtime : BOOLEAN,
     fetch : {"raises", "empty", "data"},      \* fetch_stock_data
     realtime : {"data", "error"},             \* fetch_realtime_stock_data
     core : {"ok", "raises"},                  \* lines 51-61: analysis, prediction, fusion
     close : {"number", "raises"}]             \* float(stock_data['Close'].iloc[-1])

NoResponse == [status |-> 0, body |-> {}]

\* lines 33-34, 40-41, 80-81: jsonify({'error': ...}), status
ErrorResponse(status) == [status |-> status, body |-> {"error"}]

\* lines 43-48: response = {'symbol': symbol}, then the real-time quote
ResponseHead(in) ==
    {"symbol"} \cup (IF in.use_realtime /\ in.realtime = "data" THEN {"realtime"} ELSE {})

\* lines 25-81
analyze_stock(in) ==
    IF in.symbol = "" THEN ErrorResponse(400)
    ELSE IF in.fetch = "raises" THEN ErrorResponse(500)
    ELSE IF in.fetch = "empty" THEN ErrorResponse(404)
    ELSE IF in.close = "raises" THEN ErrorResponse(500)
    ELSE IF in.core = "ok"
    THEN [status |-> 200,
          body |-> ResponseHead(in) \cup {"analysis", "prediction", "recommendation",
                                          "current_price", "data_source"}]
    ELSE [status |-> 200,
          body |-> ResponseHead(in) \cup {"error", "current_price", "analysis",
                                          "prediction", "recommendation", "data_source"}]

InitAnalyze ==
    /\ \E in \in AnalyzeInputs : response = [input |-> in, pc |-> "start", out |-> NoResponse]
    /\ analysis_results = EmptySignalSet
    /\ prediction = NonePrediction
    /\ pc = "start"
    /\ scores = NoScores
    /\ result = NoResult
    /\ IdleBoost /\ IdleLifecycle /\ IdleTA /\ IdleFeatures

HandleAnalyze ==
    /\ response.pc = "start"
    /\ response' = [response EXCEPT !.pc = "done", !.out = analyze_stock(response.input)]
    /\ UNCHANGED <<analysis_results, prediction, pc, scores, result,
                   direction_prob, classified, store, requests, ta, fp>>

NextAnalyze == HandleAnalyze

SpecAnalyze == InitAnalyze /\ [][NextAnalyze]_vars

\* C21: every response of the /analyze handler has the analysis, prediction
\* and recommendation fields, also when the series is empty or the fetch
\* raises.
C21_CompleteResponse ==
    response.pc = "done" =>
        {"analysis", "prediction", "recommendation"} \subseteq response.out.body

\* The model prediction of the request succeeded
ModelSucceeded(req) ==
    /\ req.pc = "done"
    /\ req.outcome.status = "returned"
    /\ req.outcome.error = ""

\* The prediction the model alone gives for the request
ModelAlone(req) ==
    LET c == Classify(req.prob)
    IN  [direction |-> c.direction,
         confidence |-> BoostConfidence(c.direction, c.confidence, analysis_results),
         predicted_return |-> req.predicted_return]

\* C22: when the model prediction succeeded and the advisory provider
\* raises or answers 'unknown', the request returns the model's direction,
\* confidence and predicted return, with no ai_direction, combined_direction
\* or combined_confidence.
C22_AdvisoryOmitted ==
    \A r \in RequestIds :
        LET req == requests[r]
        IN  (ModelSucceeded(req) /\ req.use_ai
                /\ req.advisory.direction \in {"raises", "unknown"}) =>
               /\ req.outcome.direction = ModelAlone(req).direction
               /\ req.outcome.confidence = ModelAlone(req).confidence
               /\ req.outcome.predicted_return = ModelAlone(req).predicted_return
               /\ req.outcome.ai_direction = "None"
               /\ req.outcome.combined_direction = "None"
               /\ req.outcome.combined_confidence = 0
               /\ req.outcome.sources = ""

C22_Witness ==
    \E r \in RequestIds :
        /\ ModelSucceeded(requests[r]) /\ requests[r].use_ai
        /\ requests[r].advisory.direction = "unknown"
        /\ requests[r].outcome.direction = "down"
        /\ requests[r].outcome.predicted_return = PredictedReturn

-----------------------------------------------------------------------------
(* Claims about the boost and the advisory combination *)

\* The boost as the rules state it: for 'down' the MACD adds 0.05 only when
\* the signal set reports it below its signal line and negative
StatedBoost(direction, confidence, a) ==
    IF ~UsableAnalysis(a) THEN confidence
    ELSE
      LET ma == a.moving_averages
          rsi == a.rsi
          macd == a.macd
          cross == IF direction = "up" THEN ma.present /\ ma.golden_cross
                   ELSE ma.present /\ ma.death_cross
          extreme == IF direction = "up" THEN rsi.present /\ rsi.oversold
                     ELSE rsi.present /\ rsi.overbought
          confirms == IF direction = "up"
                      THEN macd.present /\ macd.macd_above_signal /\ macd.macd_positive
                      ELSE macd.present /\ ~macd.macd_above_signal /\ ~macd.macd_positive
          c1 == IF cross THEN BoostBy(confidence, 10) ELSE confidence
          c2 == IF extreme THEN BoostBy(c1, 5) ELSE c1
      IN  IF confirms THEN BoostBy(c2, 5) ELSE c2

\* C23: the boosted confidence is the classified confidence plus 0.10 for
\* the cross of the direction, 0.05 for the RSI extreme of the direction and
\* 0.05 for a MACD that the signal set reports on the side of the direction,
\* each capped at 0.95; a signal set without MACD gives no MACD boost.
C23_BoostRules ==
    pc = "predicted" =>
        prediction.confidence =
            StatedBoost(classified.direction, classified.confidence, analysis_results)

\* Both requests are for one symbol, both found a file missing, both ran
\* the training to its writes, and both have finished
BothTrained ==
    /\ requests[1].symbol = requests[2].symbol
    /\ \A r \in {1, 2} :
          /\ requests[r].pc = "done"
          /\ requests[r].seen # KindSet
          /\ requests[r].trained
          /\ ~TooFewRows(requests[r].usable_rows)

\* C24: when two requests for one symbol both find a file missing and both
\* train, both write all four files, and once both have finished every one
\* of the four files exists and is the complete output of one of the two
\* runs.
C24_ConcurrentTraining ==
    BothTrained =>
        /\ \A r \in {1, 2} : requests[r].written = KindSet
        /\ \A a \in KindSet :
              LET file == store[ArtifactKey(requests[1])][a]
              IN  /\ file.content = "whole"
                  /\ file.run \in {1, 2}
                  /\ file.data = requests[file.run].symbol

-----------------------------------------------------------------------------
(* Further claims about generate_recommendation *)

\* How often a reason occurs in a list
Occurrences(reasons, x) == Cardinality({i \in DOMAIN reasons : reasons[i] = x})

\* C25: when more than 5 reasons were collected, exactly 5 are returned,
\* all of them collected ones, in order of decreasing length and each at
\* least as long as every reason left out; when 5 or fewer were collected,
\* the list is returned as it was collected.
C25_ReasonList ==
    (Returned /\ ~InsufficientData(analysis_results)) =>
        LET collected == scores.reasons
            returned == result.reasons
        IN  IF Len(collected) > 5
            THEN /\ Len(returned) = 5
                 /\ \A i \in 1..4 : Len(returned[i]) >= Len(returned[i + 1])
                 /\ \A i \in 1..5 :
                       Occurrences(returned, returned[i]) <= Occurrences(collected, returned[i])
                 /\ \A j \in DOMAIN collected :
                       Occurrences(returned, collected[j]) < Occurrences(collected, collected[j])
                          => \A i \in 1..5 : Len(returned[i]) >= Len(collected[j])
            ELSE returned = collected

\* C25 witness: more than five reasons were collected and a collected
\* reason was left out of the returned list.
C25_Witness ==
    /\ Returned /\ ~InsufficientData(analysis_results)
    /\ Len(scores.reasons) > 5
    /\ \E j \in DOMAIN scores.reasons :
          Occurrences(result.reasons, scores.reasons[j]) = 0

\* The locals as every signal but the RSI leaves them
WithoutRsi == CollectScores([analysis_results EXCEPT !.rsi = NoRsi], prediction)

\* C26: for every non-empty RSI record the call returns and has made
\* exactly one contribution: +3 sell when overbought; else +3 buy when
\* oversold; else +1 buy when the value is above 50; else +1 sell.
C26_RsiScoring ==
    (pc # "call" /\ ~InsufficientData(analysis_results) /\ analysis_results.rsi.present) =>
        /\ Returned
        /\ LET rsi == analysis_results.rsi
               buy == scores.buy_score - WithoutRsi.buy_score
               sell == scores.sell_score - WithoutRsi.sell_score
           IN  /\ scores.hold_score = WithoutRsi.hold_score
               /\ Len(scores.reasons) = Len(WithoutRsi.reasons) + 1
               /\ <<buy, sell>> =
                     IF rsi.overbought THEN <<0, 3>>
                     ELSE IF rsi.oversold THEN <<3, 0>>
                     ELSE IF rsi.value > 5000 THEN <<1, 0>>
                     ELSE <<0, 1>>

-----------------------------------------------------------------------------
(* The indicator engine's output handed to generate_recommendation *)

\* The 'moving_averages' record of the analysis as generate_recommendation
\* reads it; the 20-day flags are not part of this model of the engine
EngineMovingAverages ==
    [NoMovingAverages EXCEPT !.present = TRUE,
                             !.price_above_sma_50 = ta.result.price_above_sma_50 = "True",
                             !.price_above_sma_200 = ta.result.price_above_sma_200,
                             !.sma_50_above_sma_200 = ta.result.sma_50_above_sma_200,
                             !.golden_cross = ta.result.golden_cross = "True",
                             !.death_cross = ta.result.death_cross = "True"]

\* The same record with the two flags of the 200-day average left out
WithoutSma200 ==
    [EngineMovingAverages EXCEPT !.price_above_sma_200 = "None",
                                 !.sma_50_above_sma_200 = "None"]

\* C27: for a series of fewer than 200 rows the recommendation computed from
\* the engine's output has no buy or sell contribution and no reason from
\* the price against the 200-day average or the 50-day against the 200-day
\* average.
C27_LongAverageOmitted ==
    (ta.pc = "done" /\ ta.result.kind = "dict" /\ ta.input.n < SMA200Window) =>
        CheckMovingAverages(InitialScores, EngineMovingAverages)
            = CheckMovingAverages(InitialScores, WithoutSma200)

-----------------------------------------------------------------------------
(* The prediction step of generate_recommendation *)

\* The locals after the five signal groups, before the prediction step
SignalScores ==
    CheckBollinger(
        CheckStochastic(
            CheckRsi(
                CheckMacd(
                    CheckMovingAverages(InitialScores, analysis_results.moving_averages),
                    analysis_results.macd),
                analysis_results.rsi),
            analysis_results.stochastic),
        analysis_results.bollinger_bands)

\* C28: with a prediction of None or {} the prediction step leaves the buy,
\* sell and hold totals and the reasons as the technical signals left them,
\* so the verdict is the one of the technical signals alone; a hold total is
\* there only when a non-empty prediction was supplied.
C28_AbsentPrediction ==
    (Returned /\ ~InsufficientData(analysis_results)) =>
        /\ prediction.kind # "dict" =>
              /\ scores = SignalScores
              /\ scores.hold_score = 0
              /\ result.verdict = DetermineVerdict(SignalScores).verdict
              /\ result.confidence = DetermineVerdict(SignalScores).confidence
              /\ result.reasons = LimitReasons(SignalScores.reasons)
        /\ scores.hold_score > 0 =>
              /\ prediction.kind = "dict"
              /\ scores.hold_score = 2

\* C28 witness: a call with the prediction {} whose technical signals alone
\* give a verdict other than HOLD.
C28_Witness ==
    /\ Returned /\ ~InsufficientData(analysis_results)
    /\ prediction = EmptyPrediction
    /\ scores.buy_score + scores.sell_score > 0
    /\ result.verdict # "HOLD"

-----------------------------------------------------------------------------
(* Which rows prepare_features keeps *)

\* The index labels of the rows returned
KeptRows == {fp.rows[i]["index"] : i \in 1..Len(fp.rows)}

\* The returned row of the last row of the series
LastRow == fp.rows[Len(fp.rows)]

\* A series whose cells are all numeric and whose volume is never 0
CleanSeries ==
    /\ fp.input.close_defect = NoDefect
    /\ fp.input.volume_defect = NoDefect
    /\ fp.input.volume_base # 0

\* The rows kept have every column defined, none of them is one of the
\* first 49 rows, and a series of N rows gives at most N - 49 rows
WarmUpDropped ==
    /\ \A i \in 1..Len(fp.rows) : \A c \in Columns : fp.rows[i][c] # "nan"
    /\ \A i \in KeptRows : i >= LongestWindow
    /\ Len(fp.rows) <= fp.input.n - (LongestWindow - 1)
    /\ fp.input.n < MinTrainingRows + LongestWindow - 1 => TooFewRows(Len(fp.rows))

\* C29 as stated: the rows kept have every column defined, the first 49 rows
\* are dropped, at most N - 49 rows are returned, and the last row of a
\* series of 50 rows or more is retained with target_return 0.0 and
\* target_direction 0.
C29_LastRowRetained ==
    fp.pc = "done" =>
        /\ WarmUpDropped
        /\ fp.input.n >= LongestWindow =>
              /\ fp.input.n \in KeptRows
              /\ LastRow.target_return = "zero"
              /\ LastRow.target_direction = "zero"

\* C29 amended: as stated for the rows dropped and the number of rows; the
\* last row of the series is retained when the series has 50 rows or more,
\* all numeric, with no volume of 0, and whenever it is retained it has
\* target_return 0.0 and target_direction 0.
C29_FeatureRows ==
    fp.pc = "done" =>
        /\ WarmUpDropped
        /\ (fp.input.n >= LongestWindow /\ CleanSeries) => fp.input.n \in KeptRows
        /\ fp.input.n \in KeptRows =>
              /\ LastRow["index"] = fp.input.n
              /\ LastRow.target_return = "zero"
              /\ LastRow.target_direction = "zero"

\* C29 witness: a series of 51 rows whose first close is missing: row 50
\* has the missing cell in its 50-day window and is dropped, the last row
\* is returned alone.
C29_Witness ==
    /\ fp.pc = "done"
    /\ fp.input.n = LongestWindow + 1
    /\ fp.input.close_defect.pos = 1 /\ fp.input.close_defect.value = NaN
    /\ KeptRows = {LongestWindow + 1}
    /\ LastRow.target_return = "zero"

====
